---- MODULE Spec2Model ----
(***************************************************************************)
(* A model of src/src/shaders.rs: the vertex transform (vertex_shader) and *)
(* the fragment colouring dispatcher (fragment_shader) with its per-body   *)
(* shader routines.                                                        *)
(*                                                                         *)
(* Numbers.  The vertex stage is linear algebra over f32; it is modelled   *)
(* over exact rationals extended with the IEEE-754 specials: a scalar is   *)
(* a pair <<n, d>> in lowest terms, with d > 0 for a non-zero number,      *)
(* <<0,1>> is +0.0, <<0,-1>> is -0.0, <<1,0>> is +infinity, <<-1,0>> is    *)
(* -infinity and <<0,0>> is NaN.  The fragment stage uses                  *)
(* transcendental functions and is modelled in fixed point (see below):     *)
(* sin, asin, atan2 and sqrt are computed to the last fixed-point digit,   *)
(* not to f32 precision.                                                   *)
(***************************************************************************)
EXTENDS Integers, Sequences, FiniteSets, TLC

VARIABLES
    pc,             \* "vertex" | "vertex_done" | "fragment" | "fragment_done"
    uniforms,       \* the Uniforms both entry points read
    vertex,         \* the input Vertex of vertex_shader
    vout,           \* the Vertex vertex_shader returned
    clip,           \* vertex_shader's `transformed`
    ndc,            \* vertex_shader's `transformed_position` (before viewport)
    normal_matrix,  \* vertex_shader's `normal_matrix`
    inv_ok,         \* whether try_inverse returned Some
    fragment,       \* the input Fragment of fragment_shader
    shade,          \* what the selected shader computed: colour, locals, steps
    called          \* the per-body routines fragment_shader called, in order

vars == <<pc, uniforms, vertex, vout, clip, ndc, normal_matrix, inv_ok,
          fragment, shade, called>>

(***************************************************************************)
(* Bounds of the model.                                                    *)
(***************************************************************************)
MaxCoord == 2

(***************************************************************************)
(* Extended rationals (f32 scalars of the vertex stage).                   *)
(***************************************************************************)
Abs(i) == IF i < 0 THEN -i ELSE i

Sgn(i) == IF i < 0 THEN -1 ELSE IF i > 0 THEN 1 ELSE 0

RECURSIVE Gcd(_, _)
Gcd(a, b) == IF b = 0 THEN a ELSE Gcd(b, a % b)

RNaN == <<0, 0>>

RInf(s) == <<s, 0>>

RNorm(n, d) ==
    IF d = 0 THEN <<Sgn(n), 0>>
    ELSE LET g == Gcd(Abs(n), Abs(d))
             s == IF d < 0 THEN -1 ELSE 1
         IN  <<s * (n \div g), s * (d \div g)>>

R(i) == <<i, 1>>

RIsNaN(a) == a = RNaN

RIsInf(a) == a[2] = 0 /\ a[1] # 0

RIsFinite(a) == a[2] # 0

\* +0.0 or -0.0
RIsZero(a) == a[1] = 0 /\ a[2] # 0

\* the zero of sign s
RZero(s) == <<0, s>>

\* the sign bit of a scalar other than NaN, as 1 or -1
RSign(a) == IF a[1] < 0 \/ (a[1] = 0 /\ a[2] < 0) THEN -1 ELSE 1

\* f32 addition: inf + (-inf) is NaN, NaN is absorbing; a zero sum is +0.0
\* unless both operands are -0.0
RAdd(a, b) ==
    IF RIsNaN(a) \/ RIsNaN(b) THEN RNaN
    ELSE IF RIsInf(a) /\ RIsInf(b) THEN (IF a = b THEN a ELSE RNaN)
    ELSE IF RIsInf(a) THEN a
    ELSE IF RIsInf(b) THEN b
    ELSE IF RIsZero(a) /\ RIsZero(b) THEN (IF a = b THEN a ELSE RZero(1))
    ELSE IF RIsZero(a) THEN b
    ELSE IF RIsZero(b) THEN a
    ELSE RNorm(a[1] * b[2] + b[1] * a[2], a[2] * b[2])

RNeg(a) == IF RIsZero(a) THEN RZero(-a[2]) ELSE <<-a[1], a[2]>>

RSub(a, b) == RAdd(a, RNeg(b))

\* f32 multiplication: 0 * inf is NaN; the sign of the product, a zero
\* product included, is the product of the signs
RMul(a, b) ==
    IF RIsNaN(a) \/ RIsNaN(b) THEN RNaN
    ELSE IF RIsInf(a) \/ RIsInf(b)
         THEN (IF RIsZero(a) \/ RIsZero(b) THEN RNaN
               ELSE RInf(RSign(a) * RSign(b)))
    ELSE IF RIsZero(a) \/ RIsZero(b) THEN RZero(RSign(a) * RSign(b))
    ELSE RNorm(a[1] * b[1], a[2] * b[2])

\* f32 division: x / 0 is +-inf for x # 0, 0 / 0 and inf / inf are NaN; the
\* sign of the quotient is the product of the signs, the zero's included
RDiv(a, b) ==
    IF RIsNaN(a) \/ RIsNaN(b) THEN RNaN
    ELSE IF RIsInf(a) THEN (IF RIsInf(b) THEN RNaN
                            ELSE RInf(RSign(a) * RSign(b)))
    ELSE IF RIsInf(b) THEN RZero(RSign(a) * RSign(b))
    ELSE IF RIsZero(b) THEN (IF RIsZero(a) THEN RNaN
                             ELSE RInf(RSign(a) * RSign(b)))
    ELSE IF RIsZero(a) THEN RZero(RSign(a) * RSign(b))
    ELSE RNorm(a[1] * b[2], a[2] * b[1])

(***************************************************************************)
(* nalgebra vectors and matrices: a matrix is a tuple of rows.             *)
(***************************************************************************)
Dot3(r, v) == RAdd(RAdd(RMul(r[1], v[1]), RMul(r[2], v[2])), RMul(r[3], v[3]))

Dot4(r, v) == RAdd(RAdd(RAdd(RMul(r[1], v[1]), RMul(r[2], v[2])),
                        RMul(r[3], v[3])), RMul(r[4], v[4]))

Mat3MulVec(m, v) == [i \in 1..3 |-> Dot3(m[i], v)]

Mat4MulVec(m, v) == [i \in 1..4 |-> Dot4(m[i], v)]

Col4(m, j) == [i \in 1..4 |-> m[i][j]]

Mat4Mul(a, b) == [i \in 1..4 |-> [j \in 1..4 |-> Dot4(a[i], Col4(b, j))]]

Mat3Mul(a, b) == [i \in 1..3 |-> [j \in 1..3 |->
                    Dot3(a[i], [k \in 1..3 |-> b[k][j]])]]

mat4_to_mat3(m) == [i \in 1..3 |-> [j \in 1..3 |-> m[i][j]]]

transpose(m) == [i \in 1..3 |-> [j \in 1..3 |-> m[j][i]]]

Mat3Identity == [i \in 1..3 |-> [j \in 1..3 |-> IF i = j THEN R(1) ELSE R(0)]]

Det2(a, b, c, d) == RSub(RMul(a, d), RMul(b, c))

determinant(m) ==
    LET minor_m12_m23 == Det2(m[2][2], m[2][3], m[3][2], m[3][3])
        minor_m11_m23 == Det2(m[2][1], m[2][3], m[3][1], m[3][3])
        minor_m11_m22 == Det2(m[2][1], m[2][2], m[3][1], m[3][2])
    IN  RAdd(RSub(RMul(m[1][1], minor_m12_m23), RMul(m[1][2], minor_m11_m23)),
             RMul(m[1][3], minor_m11_m22))

\* Entry (i, j) of the adjugate: the cofactor of entry (j, i).
Adjugate(m, i, j) ==
    LET rs == IF j = 1 THEN <<2, 3>> ELSE IF j = 2 THEN <<1, 3>> ELSE <<1, 2>>
        cs == IF i = 1 THEN <<2, 3>> ELSE IF i = 2 THEN <<1, 3>> ELSE <<1, 2>>
        mn == Det2(m[rs[1]][cs[1]], m[rs[1]][cs[2]], m[rs[2]][cs[1]], m[rs[2]][cs[2]])
    IN  IF (i + j) % 2 = 0 THEN mn ELSE RNeg(mn)

\* Matrix::try_inverse for a 3x3 matrix: None iff the determinant is zero
\* (of either sign), else adjugate / determinant.  None is modelled as <<>>.
try_inverse(m) ==
    LET det == determinant(m)
    IN  IF RIsZero(det) THEN <<>>
        ELSE [i \in 1..3 |-> [j \in 1..3 |-> RDiv(Adjugate(m, i, j), det)]]

unwrap_or(opt, default) == IF opt = <<>> THEN default ELSE opt

(***************************************************************************)
(* vertex_shader                                                           *)
(***************************************************************************)
ClipPosition(v, u) ==
    LET position == <<v.position[1], v.position[2], v.position[3], R(1)>>
    IN  Mat4MulVec(Mat4Mul(Mat4Mul(u.projection_matrix, u.view_matrix),
                           u.model_matrix), position)

\* mutants of PerspectiveDivide: the divisor taken from the wrong component;
\* w left as it was
PerspectiveDivideByZ(transformed) ==
    LET w == transformed[3]
    IN  <<RDiv(transformed[1], w), RDiv(transformed[2], w),
          RDiv(transformed[3], w), R(1)>>

PerspectiveDivideKeepW(transformed) ==
    LET w == transformed[4]
    IN  <<RDiv(transformed[1], w), RDiv(transformed[2], w),
          RDiv(transformed[3], w), w>>

PerspectiveDivide(transformed) ==
    LET w == transformed[4]
    IN  <<RDiv(transformed[1], w), RDiv(transformed[2], w),
          RDiv(transformed[3], w), R(1)>>

\* mutant of NormalMatrix: the transpose forgotten
NormalMatrixNoTranspose(u) ==
    unwrap_or(try_inverse(mat4_to_mat3(u.model_matrix)), Mat3Identity)

NormalMatrix(u) ==
    unwrap_or(try_inverse(transpose(mat4_to_mat3(u.model_matrix))), Mat3Identity)

\* the Vertex built at the end of vertex_shader from the pre-viewport point
\* and the normal matrix
VertexOut(v, u, transformed_position, nm) ==
    LET screen_position == Mat4MulVec(u.viewport_matrix, transformed_position)
        transformed_normal == Mat3MulVec(nm, v.normal)
    IN  [position |-> v.position,
         normal |-> v.normal,
         tex_coords |-> v.tex_coords,
         color |-> v.color,
         transformed_position |->
             <<screen_position[1], screen_position[2], screen_position[3]>>,
         transformed_normal |-> transformed_normal]

vertex_shader(v, u) ==
    VertexOut(v, u, PerspectiveDivide(ClipPosition(v, u)), NormalMatrix(u))

(***************************************************************************)
(* Fragment-stage scalars (f32): fixed point, Scale units to 1.0, with one *)
(* distinguished value NaN.  NaN is absorbing in arithmetic and every      *)
(* comparison with NaN is false, as in IEEE-754.                           *)
(***************************************************************************)
Scale == 10000

NaN == -2000000000

IsNaN(a) == a = NaN

\* the f32 literal num/den
Lit(num, den) == (num * Scale) \div den

\* `n as f32` for an integer n
FromInt(n) == n * Scale

\* nearest integer to n / d (d > 0), ties away from zero
RoundDiv(n, d) == IF n >= 0 THEN (2 * n + d) \div (2 * d)
                  ELSE -((2 * (-n) + d) \div (2 * d))

FAdd(a, b) == IF IsNaN(a) \/ IsNaN(b) THEN NaN ELSE a + b

FSub(a, b) == IF IsNaN(a) \/ IsNaN(b) THEN NaN ELSE a - b

\* a * b / Scale, computed by parts so that no intermediate product leaves
\* the 32-bit range
FMul(a, b) ==
    IF IsNaN(a) \/ IsNaN(b) THEN NaN
    ELSE LET s  == Sgn(a) * Sgn(b)
             q1 == Abs(a) \div Scale
             r1 == Abs(a) % Scale
             q2 == Abs(b) \div Scale
             r2 == Abs(b) % Scale
         IN  s * (q1 * q2 * Scale + q1 * r2 + r1 * q2 + RoundDiv(r1 * r2, Scale))

FAbs(a) == IF IsNaN(a) THEN NaN ELSE Abs(a)

FMax(a, b) == IF IsNaN(a) THEN b ELSE IF IsNaN(b) THEN a ELSE IF a > b THEN a ELSE b

FGt(a, b) == ~IsNaN(a) /\ ~IsNaN(b) /\ a > b

FLt(a, b) == ~IsNaN(a) /\ ~IsNaN(b) /\ a < b

Pi == 31416

HalfPi == 15708

TwoPi == 62832

\* sin on [-pi/2, pi/2]: the Taylor polynomial to x^9
SinPoly(x) ==
    LET x2 == FMul(x, x)
        x3 == FMul(x2, x)
        x5 == FMul(x3, x2)
        x7 == FMul(x5, x2)
        x9 == FMul(x7, x2)
    IN  x - RoundDiv(x3, 6) + RoundDiv(x5, 120) - RoundDiv(x7, 5040)
          + RoundDiv(x9, 362880)

Clamp(v, lo, hi) == IF v < lo THEN lo ELSE IF v > hi THEN hi ELSE v

\* what TwoPi exceeds 2 * pi by, in 10^-5 units: 2 * pi = 6.283185307
TwoPiExcess == 14693

\* x less the nearest-below multiple of 2 * pi: the turns are counted with
\* TwoPi and what TwoPi exceeds 2 * pi by is given back for each turn
ReduceTurns(x) ==
    LET k == x \div TwoPi
        r == (x % TwoPi) + RoundDiv(k * TwoPiExcess, 100000)
    IN  r % TwoPi

\* f32::sin
Sin(x) ==
    IF IsNaN(x) THEN NaN
    ELSE LET m == ReduceTurns(x)
             y == IF m > Pi THEN m - TwoPi ELSE m
             z == IF y > HalfPi THEN Pi - y
                  ELSE IF y < -HalfPi THEN -Pi - y ELSE y
         IN  Clamp(SinPoly(z), -Scale, Scale)

\* f32::cos
Cos(x) == IF IsNaN(x) THEN NaN ELSE Sin(x + HalfPi)

RECURSIVE AsinSearch(_, _, _)
AsinSearch(y, lo, hi) ==
    IF hi - lo <= 1 THEN (IF y - Sin(lo) <= Sin(hi) - y THEN lo ELSE hi)
    ELSE LET mid == (lo + hi) \div 2
         IN  IF Sin(mid) <= y THEN AsinSearch(y, mid, hi)
             ELSE AsinSearch(y, lo, mid)

RECURSIVE SqrtSearch(_, _, _)
SqrtSearch(n, lo, hi) ==
    IF hi - lo <= 1 THEN (IF n - lo * lo <= hi * hi - n THEN lo ELSE hi)
    ELSE LET mid == (lo + hi) \div 2
         IN  IF mid * mid <= n THEN SqrtSearch(n, mid, hi)
             ELSE SqrtSearch(n, lo, mid)

\* sqrt(1 - y^2) for |y| <= 1, from the exact product (1 - y)(1 + y)
CoSine(y) == SqrtSearch((Scale - y) * (Scale + y), 0, Scale)

\* f32::asin: NaN outside [-1, 1].  Where the sine is flat (|y| above
\* sqrt(1/2)) the angle is found from its complement, whose sine is
\* sqrt(1 - y^2).
Asin(y) ==
    IF IsNaN(y) \/ y < -Scale \/ y > Scale THEN NaN
    ELSE IF y > Lit(7071, 10000)
         THEN HalfPi - AsinSearch(CoSine(y), 0, HalfPi)
    ELSE IF y < -Lit(7071, 10000)
         THEN AsinSearch(CoSine(y), 0, HalfPi) - HalfPi
    ELSE AsinSearch(y, -HalfPi, HalfPi)

\* the angle t in [0, pi/2] with tan t = a / b, for integers a >= 0, b >= 0,
\* not both 0 and neither above AtanOperandMax: sin t * b against cos t * a,
\* as exact integer products
RECURSIVE AtanSearch(_, _, _, _)
AtanSearch(a, b, lo, hi) ==
    IF hi - lo <= 1
    THEN (IF Sin(hi) * b - Cos(hi) * a <= Cos(lo) * a - Sin(lo) * b
          THEN hi ELSE lo)
    ELSE LET mid == (lo + hi) \div 2
         IN  IF Sin(mid) * b <= Cos(mid) * a
             THEN AtanSearch(a, b, mid, hi)
             ELSE AtanSearch(a, b, lo, mid)

\* the operands of AtanSearch are brought under this by a common divisor
AtanOperandMax == 100000

\* f32::atan2: y.atan2(x); the angle depends on the ratio of the operands
\* alone
Atan2(y, x) ==
    IF IsNaN(y) \/ IsNaN(x) THEN NaN
    ELSE IF y = 0 THEN (IF x >= 0 THEN 0 ELSE Pi)
    ELSE IF x = 0 THEN (IF y > 0 THEN HalfPi ELSE -HalfPi)
    ELSE LET k == (FMax(Abs(y), Abs(x)) \div AtanOperandMax) + 1
             t == AtanSearch(Abs(y) \div k, Abs(x) \div k, 0, HalfPi)
             u == IF x > 0 THEN t ELSE Pi - t
         IN  IF y > 0 THEN u ELSE -u

\* f32::sqrt of a fixed-point value v >= 0
Sqrt(v) == IF IsNaN(v) \/ v < 0 THEN NaN ELSE SqrtSearch(v * Scale, 0, 46340)

\* Vec3::magnitude
magnitude(p) == Sqrt(FAdd(FAdd(FMul(p[1], p[1]), FMul(p[2], p[2])), FMul(p[3], p[3])))

(***************************************************************************)
(* Color (crate::color): a triple of channels in 0..255.                   *)
(***************************************************************************)
Color(r, g, b) == <<r, g, b>>

\* f32 -> u8 channel: clamped to the representable range, NaN becomes 0
Channel(v) == Clamp(v, 0, 255)

\* Color::lerp: self + (other - self) * t per channel, t itself not clamped
lerp(self, other, t) ==
    [i \in 1..3 |->
        IF IsNaN(t) THEN 0
        ELSE Channel(RoundDiv(self[i] * Scale + (other[i] - self[i]) * t, Scale))]

\* Color * f32: every channel multiplied by the scalar
ColorMul(self, k) ==
    [i \in 1..3 |->
        IF IsNaN(k) THEN 0
        ELSE IF k <= 0 THEN 0
        ELSE Channel((self[i] * k) \div Scale)]

(***************************************************************************)
(* The noise source (uniforms.noise), an external collaborator: a          *)
(* deterministic scalar field with values in [-1, 1].  Two families of     *)
(* fields are modelled: a stub returning the same value v at every query,  *)
(* and a lattice field whose value depends on the integer cell of the      *)
(* query coordinates.                                                      *)
(***************************************************************************)
LatticeLevels == <<0, 3500, -6200, 7200, -2500, 9600, 1500, -8800, 5500, 8200>>

Cell(x) == x \div Scale

get_noise_3d(noise, x, y, z) ==
    IF IsNaN(x) \/ IsNaN(y) \/ IsNaN(z) THEN NaN
    ELSE IF noise.kind = "stub" THEN noise.v
    ELSE LatticeLevels[((Cell(x) + 3 * Cell(y) + 7 * Cell(z) + noise.v)
                         % Len(LatticeLevels)) + 1]

get_noise_2d(noise, x, y) ==
    IF IsNaN(x) \/ IsNaN(y) THEN NaN
    ELSE IF noise.kind = "stub" THEN noise.v
    ELSE LatticeLevels[((Cell(x) + 3 * Cell(y) + noise.v)
                         % Len(LatticeLevels)) + 1]

\* a * (num / den): multiplication by an f32 literal
M(a, num, den) == FMul(a, Lit(num, den))

(***************************************************************************)
(* The per-body shaders.  A shader's `final_color` starts at a base colour *)
(* and is updated by a sequence of `final_color.lerp(&to, t)` steps, some  *)
(* of them under an `if`; the product with the intensity factors comes     *)
(* last.  Each shader returns the colour, the named scalars it computed    *)
(* (locals), its base colour and the lerp steps it took, in order.         *)
(***************************************************************************)
Step(to, t) == <<[to |-> to, t |-> t]>>

\* `if gate { final_color = final_color.lerp(&to, t) }`
StepIf(gate, to, t) == IF gate THEN Step(to, t) ELSE <<>>

RECURSIVE ApplySteps(_, _)
ApplySteps(c, steps) ==
    IF steps = <<>> THEN c
    ELSE ApplySteps(lerp(c, Head(steps).to, Head(steps).t), Tail(steps))

RECURSIVE ApplyFactors(_, _)
ApplyFactors(c, factors) ==
    IF factors = <<>> THEN c
    ELSE ApplyFactors(ColorMul(c, Head(factors)), Tail(factors))

Shaded(base, steps, factors, locals) ==
    [color |-> ApplyFactors(ApplySteps(base, steps), factors),
     locals |-> locals, base |-> base, steps |-> steps, factors |-> factors]

\* mutant of SunBrightness: the constant term forgotten
SunBrightnessNoBase(corona) == M(corona, 1, 2)

\* the sun's brightness multiplier
SunBrightness(corona) == FAdd(Lit(1, 1), M(corona, 1, 2))

sun_shader(f, u) ==
    LET position == f.vertex_position
        time == M(FromInt(u.time), 1, 100)
        core_color == Color(255, 200, 0)
        corona_color == Color(255, 100, 0)
        plasma1 == get_noise_3d(u.noise,
                       FAdd(M(position[1], 50, 1), time),
                       M(position[2], 50, 1),
                       M(time, 2, 1))
        plasma2 == get_noise_3d(u.noise,
                       FSub(M(position[1], 30, 1), time),
                       M(position[2], 30, 1),
                       time)
        corona == FAbs(get_noise_3d(u.noise,
                       M(position[1], 10, 1),
                       M(position[2], 10, 1),
                       M(time, 1, 2)))
        combined_noise == M(FAdd(plasma1, plasma2), 1, 2)
        brightness == SunBrightness(corona)
    IN  Shaded(core_color,
               Step(corona_color, FAbs(combined_noise)),
               <<brightness, f.intensity>>,
               [time |-> time, plasma1 |-> plasma1, plasma2 |-> plasma2,
                corona |-> corona, combined_noise |-> combined_noise,
                brightness |-> brightness])

\* mutant of RockyLadder: the terrain comparison inverted
RockyLadderFlipped(craters, terrain, desert_color, crater_color, highland_color) ==
    IF FGt(craters, Lit(7, 10)) THEN crater_color
    ELSE IF FLt(terrain, Lit(3, 10)) THEN highland_color
    ELSE desert_color

\* the rocky planet's threshold ladder
RockyLadder(craters, terrain, desert_color, crater_color, highland_color) ==
    IF FGt(craters, Lit(7, 10)) THEN crater_color
    ELSE IF FGt(terrain, Lit(3, 10)) THEN highland_color
    ELSE desert_color

rocky_planet_shader(f, u) ==
    LET position == f.vertex_position
        time == M(FromInt(u.time), 1, 1000)
        desert_color == Color(180, 80, 20)
        crater_color == Color(120, 50, 10)
        highland_color == Color(200, 100, 30)
        terrain == get_noise_3d(u.noise,
                       M(position[1], 100, 1),
                       M(position[2], 100, 1),
                       M(position[3], 100, 1))
        craters == FAbs(get_noise_3d(u.noise,
                       FAdd(M(position[1], 200, 1), Lit(1000, 1)),
                       FAdd(M(position[2], 200, 1), Lit(1000, 1)),
                       M(position[3], 200, 1)))
        dust == get_noise_3d(u.noise,
                       FAdd(M(position[1], 50, 1), time),
                       M(position[2], 50, 1),
                       M(position[3], 50, 1))
        dust_color == Color(200, 150, 100)
    IN  Shaded(RockyLadder(craters, terrain, desert_color, crater_color,
                           highland_color),
               Step(dust_color, M(FAbs(dust), 3, 10)),
               <<f.intensity>>,
               [time |-> time, terrain |-> terrain, craters |-> craters,
                dust |-> dust])

\* the cloud overlay's gate and blend factor
CloudGate(clouds) == FGt(clouds, Lit(3, 10))

\* mutant of CloudFactor: the threshold not subtracted
CloudFactorNoThreshold(clouds) == M(clouds, 2, 1)

CloudFactor(clouds) == M(FSub(clouds, Lit(3, 10)), 2, 1)

cloudy_planet_shader(f, u) ==
    LET position == f.vertex_position
        time == M(FromInt(u.time), 1, 100)
        surface_color == Color(30, 100, 200)
        land_color == Color(50, 120, 50)
        cloud_color == Color(255, 255, 255)
        surface == get_noise_2d(u.noise,
                       M(position[1], 100, 1),
                       M(position[2], 100, 1))
        clouds == get_noise_3d(u.noise,
                       FAdd(M(position[1], 50, 1), time),
                       FAdd(M(position[2], 50, 1), M(time, 1, 2)),
                       time)
        base_color == IF FGt(surface, Lit(2, 10)) THEN land_color ELSE surface_color
    IN  Shaded(base_color,
               StepIf(CloudGate(clouds), cloud_color, CloudFactor(clouds)),
               <<f.intensity>>,
               [time |-> time, surface |-> surface, clouds |-> clouds])

\* mutant of RingBranch: zero counted as positive
RingBranchInclusive(ring_pattern) == ~IsNaN(ring_pattern) /\ ring_pattern >= 0

\* the ring shader's branch on the sign of ring_pattern
RingBranch(ring_pattern) == FGt(ring_pattern, 0)

ring_shader(f, u) ==
    LET position == f.vertex_position
        time == M(FromInt(u.time), 1, 1000)
        ring1_color == Color(180, 150, 120)
        ring2_color == Color(100, 80, 60)
        ring_pattern == get_noise_3d(u.noise,
                       FAdd(M(position[1], 200, 1), time),
                       M(position[2], 200, 1),
                       M(position[3], 200, 1))
        density == get_noise_2d(u.noise,
                       M(position[1], 100, 1),
                       M(position[2], 100, 1))
        alpha == FMul(FAdd(M(FAbs(density), 1, 2), Lit(1, 2)), f.intensity)
    IN  Shaded(IF RingBranch(ring_pattern) THEN ring1_color ELSE ring2_color,
               StepIf(RingBranch(ring_pattern), ring2_color, FAbs(density)),
               <<alpha>>,
               [time |-> time, ring_pattern |-> ring_pattern,
                density |-> density, alpha |-> alpha])

(***************************************************************************)
(* The threshold-gated overlays `if pattern > threshold { final_color =    *)
(* final_color.lerp(&overlay, factor) }` of the moon, colour, ice, nature  *)
(* and aurora shaders, by name: the threshold of each gate and the blend   *)
(* factor it computes from its pattern.                                    *)
(***************************************************************************)
GateThreshold(gate) ==
    CASE gate = "moon.craters" -> Lit(7, 10)
      [] gate = "moon.surface_details" -> Lit(8, 10)
      [] gate = "color.curve_pattern" -> Lit(6, 10)
      [] gate = "color.wave_pattern" -> Lit(1, 2)
      [] gate = "color.ring_pattern" -> Lit(1, 2)
      [] gate = "ice.crack_pattern" -> Lit(65, 100)
      [] gate = "ice.crack_depth" -> Lit(85, 100)
      [] gate = "ice.crystal_pattern" -> Lit(75, 100)
      [] gate = "ice.aurora_effect" -> Lit(7, 10)
      [] gate = "ice.frost_pattern" -> Lit(9, 10)
      [] gate = "ice.twilight" -> Lit(8, 10)
      [] gate = "nature.terrain_spiral" -> Lit(4, 10)
      [] gate = "nature.line_pattern1" -> Lit(7, 10)
      [] gate = "nature.line_pattern2" -> Lit(6, 10)
      [] gate = "nature.biolum_pattern" -> Lit(8, 10)
      [] gate = "nature.pollen" -> Lit(93, 100)
      [] gate = "aurora.wave_lines" -> Lit(6, 10)
      [] gate = "aurora.spiral" -> Lit(7, 10)
      [] gate = "aurora.sparkle" -> Lit(95, 100)
      [] gate = "aurora.circle_pattern" -> Lit(1, 2)
      [] gate = "aurora.neon_curve" -> Lit(7, 10)

GateFactor(gate, pattern) ==
    CASE gate = "moon.craters" -> M(FSub(pattern, Lit(7, 10)), 2, 1)
      [] gate = "moon.surface_details" -> M(FSub(pattern, Lit(8, 10)), 1, 2)
      [] gate = "color.curve_pattern" -> FSub(pattern, Lit(3, 10))
      [] gate = "color.wave_pattern" -> FSub(pattern, Lit(3, 10))
      [] gate = "color.ring_pattern" -> FSub(pattern, Lit(1, 2))
      [] gate = "ice.crack_pattern" -> M(FSub(pattern, Lit(65, 100)), 5, 2)
      [] gate = "ice.crack_depth" -> M(FSub(pattern, Lit(85, 100)), 3, 1)
      [] gate = "ice.crystal_pattern" -> M(FSub(pattern, Lit(75, 100)), 3, 1)
      [] gate = "ice.aurora_effect" -> M(FSub(pattern, Lit(7, 10)), 3, 2)
      [] gate = "ice.frost_pattern" -> M(FSub(pattern, Lit(9, 10)), 10, 1)
      [] gate = "ice.twilight" -> M(FSub(pattern, Lit(8, 10)), 2, 1)
      [] gate = "nature.terrain_spiral" -> M(FSub(pattern, Lit(4, 10)), 8, 10)
      [] gate = "nature.line_pattern1" -> M(FSub(pattern, Lit(7, 10)), 13, 10)
      [] gate = "nature.line_pattern2" -> M(FSub(pattern, Lit(6, 10)), 8, 10)
      [] gate = "nature.biolum_pattern" -> M(FSub(pattern, Lit(8, 10)), 2, 1)
      [] gate = "nature.pollen" -> M(FSub(pattern, Lit(93, 100)), 15, 1)
      [] gate = "aurora.wave_lines" -> M(FSub(pattern, Lit(6, 10)), 18, 10)
      [] gate = "aurora.spiral" -> M(FSub(pattern, Lit(7, 10)), 3, 2)
      [] gate = "aurora.sparkle" -> M(FSub(pattern, Lit(95, 100)), 20, 1)
      [] gate = "aurora.circle_pattern" -> M(FSub(pattern, Lit(1, 2)), 3, 2)
      [] gate = "aurora.neon_curve" -> M(FSub(pattern, Lit(7, 10)), 18, 10)

GateOpen(gate, pattern) == FGt(pattern, GateThreshold(gate))

moon_shader(f, u) ==
    LET position == f.vertex_position
        time == M(FromInt(u.time), 1, 1000)
        base_color == Color(180, 180, 180)
        crater_color == Color(100, 100, 100)
        dust_color == Color(150, 150, 150)
        craters == FAbs(get_noise_3d(u.noise,
                       M(position[1], 150, 1),
                       M(position[2], 150, 1),
                       M(position[3], 150, 1)))
        dust == get_noise_3d(u.noise,
                       FAdd(M(position[1], 80, 1), time),
                       M(position[2], 80, 1),
                       M(position[3], 80, 1))
        surface_details == FAbs(get_noise_3d(u.noise,
                       M(position[1], 200, 1),
                       M(position[2], 200, 1),
                       M(position[3], 200, 1)))
    IN  Shaded(base_color,
               StepIf(GateOpen("moon.craters", craters), crater_color,
                      GateFactor("moon.craters", craters))
               \o Step(dust_color, M(FAbs(dust), 2, 10))
               \o StepIf(GateOpen("moon.surface_details", surface_details), crater_color,
                         GateFactor("moon.surface_details", surface_details)),
               <<f.intensity>>,
               [time |-> time, craters |-> craters, dust |-> dust,
                surface_details |-> surface_details])

\* the foam overlay's gate and blend factor
FoamGate(waves) == FGt(waves, Lit(7, 10))

FoamFactor(waves) == M(FSub(waves, Lit(7, 10)), 8, 10)

ocean_planet_shader(f, u) ==
    LET position == f.vertex_position
        time == M(FromInt(u.time), 1, 100)
        deep_ocean == Color(0, 51, 102)
        shallow_water == Color(0, 153, 204)
        coral_reef == Color(64, 224, 208)
        surface_foam == Color(240, 255, 255)
        waves == FAbs(get_noise_3d(u.noise,
                       FAdd(M(position[1], 50, 1), time),
                       FAdd(M(position[2], 50, 1), M(time, 1, 2)),
                       M(position[3], 50, 1)))
        depth == FAbs(get_noise_3d(u.noise,
                       M(position[1], 30, 1),
                       M(position[2], 30, 1),
                       M(position[3], 30, 1)))
        currents == FAbs(get_noise_3d(u.noise,
                       FSub(M(position[1], 20, 1), M(time, 3, 10)),
                       M(position[2], 20, 1),
                       M(position[3], 20, 1)))
        banded == IF FLt(depth, Lit(3, 10))
                  THEN Step(shallow_water, FAdd(depth, M(waves, 2, 10)))
                  ELSE StepIf(FLt(depth, Lit(6, 10)), coral_reef, M(currents, 1, 2))
    IN  Shaded(deep_ocean,
               banded \o StepIf(FoamGate(waves), surface_foam, FoamFactor(waves)),
               <<f.intensity>>,
               [time |-> time, waves |-> waves, depth |-> depth,
                currents |-> currents])

\* the gas giant's band ladder
BandLadder(bands, secondary_bands, band1_color, band2_color, band3_color) ==
    IF FGt(bands, Lit(2, 10)) THEN band1_color
    ELSE IF FGt(secondary_bands, 0) THEN band2_color
    ELSE band3_color

\* a storm gate that tests the storm strength alone
StormGateNoQuadrant(storm, position) == FGt(storm, Lit(1, 2))

\* the storm overlay's gate: storm strength and quadrant
StormGate(storm, position) ==
    FGt(storm, Lit(1, 2)) /\ FGt(position[1], 0) /\ FGt(position[2], 0)

\* the storm colour's blend factor from core toward edge
StormFactor(storm) == M(FSub(storm, Lit(1, 2)), 2, 1)

gas_giant_shader(f, u) ==
    LET position == f.vertex_position
        time == M(FromInt(u.time), 5, 1000)
        band1_color == Color(255, 225, 190)
        band2_color == Color(210, 160, 110)
        band3_color == Color(180, 130, 90)
        storm_core_color == Color(255, 100, 80)
        storm_edge_color == Color(255, 140, 100)
        bands == get_noise_3d(u.noise,
                       FAdd(M(position[1], 50, 1), time),
                       FAdd(M(position[2], 15, 1), M(time, 2, 10)),
                       M(position[3], 50, 1))
        secondary_bands == get_noise_3d(u.noise,
                       FAdd(M(position[1], 25, 1), M(time, 1, 2)),
                       FAdd(M(position[2], 10, 1), M(time, 1, 10)),
                       M(position[3], 25, 1))
        storm == FAbs(get_noise_3d(u.noise,
                       M(FAdd(position[1], Lit(1, 2)), 150, 1),
                       M(FAdd(position[2], Lit(1, 2)), 150, 1),
                       time))
        turbulence == FAbs(get_noise_3d(u.noise,
                       FAdd(M(position[1], 100, 1), M(time, 2, 1)),
                       M(position[2], 100, 1),
                       M(position[3], 100, 1)))
        base_band_color == BandLadder(bands, secondary_bands, band1_color,
                                      band2_color, band3_color)
    IN  Shaded(IF StormGate(storm, position) THEN storm_core_color
               ELSE base_band_color,
               StepIf(StormGate(storm, position), storm_edge_color,
                      StormFactor(storm))
               \o Step(band3_color, M(turbulence, 3, 10)),
               <<f.intensity>>,
               [time |-> time, bands |-> bands,
                secondary_bands |-> secondary_bands, storm |-> storm,
                turbulence |-> turbulence])

\* sin(x) * 0.5 + 0.5 and cos(x) * 0.5 + 0.5: the remap of a wave to [0, 1]
SinUnit(x) == FAdd(M(Sin(x), 1, 2), Lit(1, 2))

CosUnit(x) == FAdd(M(Cos(x), 1, 2), Lit(1, 2))

colorful_planet_shader(f, u) ==
    LET position == f.vertex_position
        time == M(FromInt(u.time), 1, 100)
        color1 == Color(245, 56, 121)
        color2 == Color(245, 140, 105)
        color3 == Color(245, 115, 105)
        color4 == Color(245, 105, 238)
        color5 == Color(245, 159, 95)
        ring1_color == Color(245, 7, 123)
        ring2_color == Color(245, 166, 195)
        curve_pattern == SinUnit(get_noise_3d(u.noise,
                       FAdd(M(position[1], 5, 1), M(time, 3, 2)),
                       M(position[2], 5, 1),
                       M(position[3], 5, 1)))
        wave_pattern == SinUnit(FAdd(FAdd(M(position[1], 15, 1),
                                          M(position[2], 15, 1)), time))
        ring_pattern == FAbs(get_noise_3d(u.noise,
                       FAdd(M(position[1], 200, 1), time),
                       M(position[2], 200, 1),
                       M(position[3], 200, 1)))
        accent == IF GateOpen("color.curve_pattern", curve_pattern)
                  THEN Step(color4, GateFactor("color.curve_pattern", curve_pattern))
                  ELSE StepIf(GateOpen("color.wave_pattern", wave_pattern), color5,
                              GateFactor("color.wave_pattern", wave_pattern))
        ring == IF GateOpen("color.ring_pattern", ring_pattern)
                THEN Step(ring1_color, GateFactor("color.ring_pattern", ring_pattern))
                ELSE Step(ring2_color, FSub(Lit(1, 2), ring_pattern))
    IN  Shaded(color1,
               Step(color2, curve_pattern)
               \o Step(color3, M(wave_pattern, 7, 10))
               \o accent \o ring,
               <<f.intensity>>,
               [time |-> time, curve_pattern |-> curve_pattern,
                wave_pattern |-> wave_pattern, ring_pattern |-> ring_pattern])

ice_planet_shader(f, u) ==
    LET position == f.vertex_position
        time == M(FromInt(u.time), 2, 1000)
        ice_color == Color(220, 240, 255)
        deep_ice_color == Color(120, 180, 255)
        crack_color == Color(80, 130, 255)
        crystal_glow == Color(230, 255, 255)
        aurora_ice == Color(160, 255, 220)
        deep_blue == Color(40, 100, 255)
        frost_white == Color(255, 255, 255)
        twilight_ice == Color(180, 200, 255)
        ice_base == FAbs(get_noise_3d(u.noise,
                       FAdd(M(position[1], 80, 1), M(time, 1, 10)),
                       M(position[2], 80, 1),
                       M(position[3], 80, 1)))
        ice_detail == FAbs(get_noise_3d(u.noise,
                       FAdd(M(position[1], 150, 1), M(time, 2, 10)),
                       M(position[2], 150, 1),
                       M(position[3], 150, 1)))
        cracks_primary == FAbs(get_noise_3d(u.noise,
                       FAdd(M(position[1], 120, 1), M(time, 1, 2)),
                       M(position[2], 120, 1),
                       M(position[3], 120, 1)))
        cracks_secondary == FAbs(get_noise_3d(u.noise,
                       FSub(M(position[1], 180, 1), M(time, 3, 10)),
                       M(position[2], 180, 1),
                       M(position[3], 180, 1)))
        crystals_large == FAbs(get_noise_3d(u.noise,
                       FAdd(M(position[1], 200, 1), M(time, 1, 10)),
                       M(position[2], 200, 1),
                       M(position[3], 200, 1)))
        crystals_small == FAbs(get_noise_3d(u.noise,
                       FAdd(M(position[1], 300, 1), M(time, 2, 10)),
                       M(position[2], 300, 1),
                       M(position[3], 300, 1)))
        aurora_effect == FAbs(FMul(FMul(
                       Sin(FAdd(M(position[1], 3, 1), time)),
                       Cos(FAdd(M(position[2], 3, 1), M(time, 7, 10)))),
                       Sin(FAdd(M(position[3], 3, 1), M(time, 1, 2)))))
        frost_pattern == FAbs(get_noise_3d(u.noise,
                       FAdd(M(position[1], 400, 1), M(time, 1, 10)),
                       M(position[2], 400, 1),
                       M(position[3], 400, 1)))
        ice_layers == FAdd(M(ice_base, 7, 10), M(ice_detail, 3, 10))
        crack_pattern == FAdd(M(cracks_primary, 6, 10), M(cracks_secondary, 4, 10))
        crack_intensity == GateFactor("ice.crack_pattern", crack_pattern)
        crystal_pattern == FAdd(M(crystals_large, 6, 10), M(crystals_small, 4, 10))
        sparkle == SinUnit(FAdd(M(time, 5, 1), M(magnitude(position), 10, 1)))
        frost_intensity == GateFactor("ice.frost_pattern", frost_pattern)
        depth == FAbs(get_noise_3d(u.noise,
                       M(position[1], 2, 1),
                       M(position[2], 2, 1),
                       M(position[3], 2, 1)))
        twilight == FAbs(M(position[2], 2, 1))
        depth_intensity == FSub(Lit(1, 1), M(depth, 3, 10))
        cracks == IF GateOpen("ice.crack_pattern", crack_pattern)
                  THEN Step(crack_color, crack_intensity)
                       \o StepIf(GateOpen("ice.crack_depth", crack_pattern), deep_blue,
                                 GateFactor("ice.crack_depth", crack_pattern))
                  ELSE <<>>
    IN  Shaded(ice_color,
               Step(deep_ice_color, ice_layers)
               \o cracks
               \o StepIf(GateOpen("ice.crystal_pattern", crystal_pattern), crystal_glow,
                         FMul(GateFactor("ice.crystal_pattern", crystal_pattern), sparkle))
               \o StepIf(GateOpen("ice.aurora_effect", aurora_effect), aurora_ice,
                         GateFactor("ice.aurora_effect", aurora_effect))
               \o StepIf(GateOpen("ice.frost_pattern", frost_pattern), frost_white, frost_intensity)
               \o StepIf(GateOpen("ice.twilight", twilight), twilight_ice,
                         GateFactor("ice.twilight", twilight)),
               <<f.intensity, depth_intensity>>,
               [time |-> time, ice_base |-> ice_base, ice_detail |-> ice_detail,
                cracks_primary |-> cracks_primary,
                cracks_secondary |-> cracks_secondary,
                crystals_large |-> crystals_large,
                crystals_small |-> crystals_small,
                aurora_effect |-> aurora_effect, frost_pattern |-> frost_pattern,
                ice_layers |-> ice_layers, crack_pattern |-> crack_pattern,
                crystal_pattern |-> crystal_pattern, depth |-> depth,
                twilight |-> twilight, depth_intensity |-> depth_intensity])

\* the nature planet's latitude: position.y.asin()
Latitude(position) == Asin(position[2])

nature_planet_shader(f, u) ==
    LET position == f.vertex_position
        time == M(FromInt(u.time), 5, 1000)
        moss_green == Color(98, 185, 82)
        soil_brown == Color(121, 85, 61)
        deep_forest == Color(34, 93, 44)
        misty_fog == Color(180, 200, 195)
        rich_bark == Color(121, 85, 72)
        biolum_blue == Color(64, 224, 208)
        golden_pollen == Color(255, 223, 128)
        purple_fungi == Color(147, 112, 219)
        coral_accent == Color(255, 127, 80)
        veg_base == SinUnit(get_noise_3d(u.noise,
                       FAdd(M(position[1], 35, 10), M(time, 8, 10)),
                       M(position[2], 35, 10),
                       M(position[3], 35, 10)))
        veg_detail == SinUnit(get_noise_3d(u.noise,
                       FAdd(M(position[1], 8, 1), M(time, 4, 10)),
                       FAdd(M(position[2], 8, 1), M(time, 3, 10)),
                       M(position[3], 8, 1)))
        vegetation_pattern == FAdd(M(veg_base, 7, 10), M(veg_detail, 3, 10))
        latitude == Latitude(position)
        biome_mix == CosUnit(M(latitude, 3, 1))
        terrain_spiral == FAbs(FMul(FMul(
                       Sin(FAdd(M(position[1], 7, 1), M(time, 12, 10))),
                       Cos(FAdd(M(position[2], 7, 1), time))),
                       Sin(FAdd(M(position[3], 7, 1), M(time, 8, 10)))))
        line_pattern1 == SinUnit(FAdd(FAdd(M(position[1], 10, 1),
                                           M(position[3], 5, 1)), M(time, 3, 2)))
        line_pattern2 == CosUnit(FAdd(FAdd(M(position[2], 15, 1),
                                           M(position[1], 7, 1)), M(time, 12, 10)))
        river_pattern == FAbs(get_noise_3d(u.noise,
                       FAdd(M(position[1], 5, 1), M(time, 2, 10)),
                       M(position[2], 5, 1),
                       M(position[3], 5, 1)))
        biolum_pattern == FAbs(Sin(FAdd(M(magnitude(position), 8, 1), time)))
        pollen == FAbs(get_noise_3d(u.noise,
                       FAdd(M(position[1], 20, 1), M(time, 2, 1)),
                       FAdd(M(position[2], 20, 1), M(time, 3, 2)),
                       M(position[3], 20, 1)))
        water_depth == FMax(M(river_pattern, 10, 1), 0)
        depth_effect == FAbs(get_noise_3d(u.noise,
                       FAdd(M(position[1], 18, 10), M(time, 1, 10)),
                       M(position[2], 18, 10),
                       M(position[3], 18, 10)))
        fog_intensity == FAdd(M(Sin(M(time, 1, 2)), 1, 10), Lit(3, 10))
        height_intensity == FAdd(M(Sin(M(position[2], 2, 1)), 1, 10), Lit(1, 1))
    IN  Shaded(moss_green,
               Step(deep_forest, vegetation_pattern)
               \o Step(soil_brown, M(biome_mix, 4, 10))
               \o StepIf(GateOpen("nature.terrain_spiral", terrain_spiral), rich_bark,
                         GateFactor("nature.terrain_spiral", terrain_spiral))
               \o StepIf(GateOpen("nature.line_pattern1", line_pattern1), purple_fungi,
                         GateFactor("nature.line_pattern1", line_pattern1))
               \o StepIf(GateOpen("nature.line_pattern2", line_pattern2), coral_accent,
                         GateFactor("nature.line_pattern2", line_pattern2))
               \o StepIf(GateOpen("nature.biolum_pattern", biolum_pattern), biolum_blue,
                         GateFactor("nature.biolum_pattern", biolum_pattern))
               \o StepIf(GateOpen("nature.pollen", pollen), golden_pollen,
                         GateFactor("nature.pollen", pollen))
               \o StepIf(FLt(river_pattern, Lit(1, 10)), biolum_blue,
                         FSub(Lit(1, 1), water_depth))
               \o Step(misty_fog, FMul(depth_effect, fog_intensity)),
               <<f.intensity, height_intensity>>,
               [time |-> time, veg_base |-> veg_base, veg_detail |-> veg_detail,
                vegetation_pattern |-> vegetation_pattern,
                latitude |-> latitude, biome_mix |-> biome_mix,
                terrain_spiral |-> terrain_spiral,
                line_pattern1 |-> line_pattern1, line_pattern2 |-> line_pattern2,
                river_pattern |-> river_pattern,
                biolum_pattern |-> biolum_pattern, pollen |-> pollen,
                depth_effect |-> depth_effect, fog_intensity |-> fog_intensity,
                height_intensity |-> height_intensity])

aurora_planet_shader(f, u) ==
    LET position == f.vertex_position
        time == M(FromInt(u.time), 1, 100)
        pink_base == Color(255, 84, 180)
        purple_flow == Color(144, 97, 255)
        lavender_mist == Color(210, 158, 255)
        cyan_glow == Color(99, 231, 255)
        deep_blue == Color(2, 119, 188)
        neon_pink == Color(255, 20, 147)
        electric_blue == Color(45, 226, 230)
        golden_glow == Color(255, 215, 0)
        aurora_base == SinUnit(get_noise_3d(u.noise,
                       FAdd(M(position[1], 35, 10), M(time, 6, 10)),
                       FAdd(M(position[2], 35, 10), M(time, 4, 10)),
                       M(position[3], 35, 10)))
        aurora_detail == SinUnit(get_noise_3d(u.noise,
                       FAdd(M(position[1], 8, 1), M(time, 3, 10)),
                       FAdd(M(position[2], 8, 1), M(time, 2, 10)),
                       M(position[3], 8, 1)))
        aurora_pattern == FAdd(M(aurora_base, 7, 10), M(aurora_detail, 3, 10))
        wave_primary == CosUnit(FAdd(FAdd(M(position[1], 15, 1),
                                          M(position[2], 15, 1)), M(time, 4, 1)))
        wave_secondary == SinUnit(FAdd(FSub(M(position[1], 25, 1),
                                            M(position[2], 25, 1)), M(time, 3, 1)))
        wave_lines == FAdd(M(wave_primary, 6, 10), M(wave_secondary, 4, 10))
        spiral == FMul(CosUnit(FAdd(M(Atan2(position[1], position[2]), 5, 1),
                                    M(time, 2, 1))),
                       FAbs(Sin(M(magnitude(position), 4, 1))))
        sparkle == FAbs(get_noise_3d(u.noise,
                       FAdd(M(position[1], 30, 1), M(time, 2, 1)),
                       FAdd(M(position[2], 30, 1), M(time, 2, 1)),
                       M(position[3], 30, 1)))
        circle_pattern == FAbs(Sin(FAdd(M(magnitude(position), 8, 1),
                                        M(time, 3, 2))))
        neon_curve == FAbs(FMul(FMul(
                       Sin(FAdd(M(position[1], 12, 1), time)),
                       Cos(FAdd(M(position[2], 12, 1), time))),
                       Sin(FAdd(M(position[3], 12, 1), M(time, 1, 2)))))
        depth == FAbs(get_noise_3d(u.noise,
                       FAdd(M(position[1], 2, 1), M(time, 1, 10)),
                       FAdd(M(position[2], 2, 1), M(time, 1, 10)),
                       M(position[3], 2, 1)))
    IN  Shaded(pink_base,
               Step(purple_flow, aurora_pattern)
               \o StepIf(GateOpen("aurora.wave_lines", wave_lines), cyan_glow,
                         GateFactor("aurora.wave_lines", wave_lines))
               \o StepIf(GateOpen("aurora.spiral", spiral), electric_blue,
                         GateFactor("aurora.spiral", spiral))
               \o StepIf(GateOpen("aurora.sparkle", sparkle), golden_glow,
                         GateFactor("aurora.sparkle", sparkle))
               \o StepIf(GateOpen("aurora.circle_pattern", circle_pattern), lavender_mist,
                         GateFactor("aurora.circle_pattern", circle_pattern))
               \o StepIf(GateOpen("aurora.neon_curve", neon_curve), neon_pink,
                         GateFactor("aurora.neon_curve", neon_curve))
               \o Step(deep_blue, M(depth, 1, 2)),
               <<f.intensity, Lit(12, 10)>>,
               [time |-> time, aurora_base |-> aurora_base,
                aurora_detail |-> aurora_detail,
                aurora_pattern |-> aurora_pattern,
                wave_primary |-> wave_primary, wave_secondary |-> wave_secondary,
                wave_lines |-> wave_lines, spiral |-> spiral,
                sparkle |-> sparkle, circle_pattern |-> circle_pattern,
                neon_curve |-> neon_curve, depth |-> depth])

(***************************************************************************)
(* fragment_shader: the dispatch on uniforms.current_body.                 *)
(***************************************************************************)
CelestialBody == {"Sun", "RockyPlanet", "GasGiant", "CloudyPlanet",
                  "RingedPlanet", "IcePlanet", "ColorPlanet", "Moon",
                  "OceanPlanet", "AuroraPlanet", "NaturePlanet"}

\* mutant of Routine: the Moon arm calling the rocky planet's routine
RoutineMoonAsRocky(body) ==
    CASE body = "Sun" -> "sun_shader"
      [] body = "RockyPlanet" -> "rocky_planet_shader"
      [] body = "GasGiant" -> "gas_giant_shader"
      [] body = "CloudyPlanet" -> "cloudy_planet_shader"
      [] body = "RingedPlanet" -> "ring_shader"
      [] body = "IcePlanet" -> "ice_planet_shader"
      [] body = "ColorPlanet" -> "colorful_planet_shader"
      [] body = "Moon" -> "rocky_planet_shader"
      [] body = "OceanPlanet" -> "ocean_planet_shader"
      [] body = "AuroraPlanet" -> "aurora_planet_shader"
      [] body = "NaturePlanet" -> "nature_planet_shader"

\* the arm of the match taken for a body kind: the routine it names
Routine(body) ==
    CASE body = "Sun" -> "sun_shader"
      [] body = "RockyPlanet" -> "rocky_planet_shader"
      [] body = "GasGiant" -> "gas_giant_shader"
      [] body = "CloudyPlanet" -> "cloudy_planet_shader"
      [] body = "RingedPlanet" -> "ring_shader"
      [] body = "IcePlanet" -> "ice_planet_shader"
      [] body = "ColorPlanet" -> "colorful_planet_shader"
      [] body = "Moon" -> "moon_shader"
      [] body = "OceanPlanet" -> "ocean_planet_shader"
      [] body = "AuroraPlanet" -> "aurora_planet_shader"
      [] body = "NaturePlanet" -> "nature_planet_shader"

\* the call of a named routine
Invoke(routine, f, u) ==
    CASE routine = "sun_shader" -> sun_shader(f, u)
      [] routine = "rocky_planet_shader" -> rocky_planet_shader(f, u)
      [] routine = "gas_giant_shader" -> gas_giant_shader(f, u)
      [] routine = "cloudy_planet_shader" -> cloudy_planet_shader(f, u)
      [] routine = "ring_shader" -> ring_shader(f, u)
      [] routine = "ice_planet_shader" -> ice_planet_shader(f, u)
      [] routine = "colorful_planet_shader" -> colorful_planet_shader(f, u)
      [] routine = "moon_shader" -> moon_shader(f, u)
      [] routine = "ocean_planet_shader" -> ocean_planet_shader(f, u)
      [] routine = "aurora_planet_shader" -> aurora_planet_shader(f, u)
      [] routine = "nature_planet_shader" -> nature_planet_shader(f, u)

\* the calls fragment_shader makes, in order
Calls(f, u) == <<[routine |-> Routine(u.current_body), fragment |-> f,
                  uniforms |-> u]>>

fragment_shader(f, u) == Invoke(Routine(u.current_body), f, u)

(***************************************************************************)
(* Inputs.                                                                 *)
(***************************************************************************)
MaxFragCoord == 2

MaxTime == 1

MaxSeed == 1

IntMat(rows) == [i \in 1..Len(rows) |-> [j \in 1..Len(rows[i]) |-> R(rows[i][j])]]

Identity4 == IntMat(<< <<1, 0, 0, 0>>, <<0, 1, 0, 0>>, <<0, 0, 1, 0>>, <<0, 0, 0, 1>> >>)

ModelMatrices ==
    { Identity4,
      IntMat(<< <<0, 0, 0, 0>>, <<0, 0, 0, 0>>, <<0, 0, 0, 0>>, <<0, 0, 0, 1>> >>),
      IntMat(<< <<1, 0, 0, 0>>, <<0, 2, 0, 0>>, <<0, 0, 3, 0>>, <<0, 0, 0, 1>> >>),
      IntMat(<< <<0, -1, 0, 0>>, <<1, 0, 0, 0>>, <<0, 0, 1, 0>>, <<0, 0, 0, 1>> >>),
      IntMat(<< <<1, 1, 0, 1>>, <<0, 1, 0, 0>>, <<0, 0, 1, -1>>, <<0, 0, 0, 1>> >>),
      IntMat(<< <<1, 2, 0, 0>>, <<2, 4, 0, 0>>, <<0, 0, 1, 0>>, <<0, 0, 0, 1>> >>),
      IntMat(<< <<2, 1, 0, 0>>, <<0, 1, 1, 0>>, <<1, 0, 3, 0>>, <<0, 0, 0, 1>> >>),
      IntMat(<< <<-1, -1, -1, -1>>, <<-1, -1, -1, -1>>, <<-1, -1, -1, -1>>,
                <<0, 0, 0, 0>> >>) }

ViewMatrices ==
    { Identity4,
      IntMat(<< <<1, 0, 0, 0>>, <<0, 1, 0, 0>>, <<0, 0, 1, -2>>, <<0, 0, 0, 1>> >>) }

ProjectionMatrices ==
    { Identity4,
      IntMat(<< <<1, 0, 0, 0>>, <<0, 1, 0, 0>>, <<0, 0, 1, 0>>, <<0, 0, 0, 2>> >>),
      IntMat(<< <<1, 0, 0, 0>>, <<0, 1, 0, 0>>, <<0, 0, -1, -1>>, <<0, 0, -1, 0>> >>),
      IntMat(<< <<1, 0, 0, 0>>, <<0, 1, 0, 0>>, <<0, 0, 1, 0>>, <<0, 0, 0, -1>> >>) }

ViewportMatrices ==
    { Identity4,
      IntMat(<< <<4, 0, 0, 4>>, <<0, -3, 0, 3>>, <<0, 0, 1, 0>>, <<0, 0, 0, 1>> >>) }

VertexCoords == (-MaxCoord)..MaxCoord

VertexPositions == {<<R(x), R(y), R(z)>> : x \in VertexCoords, y \in VertexCoords,
                                            z \in {-1, 0, 2}}

VertexNormals == {<<R(0), R(0), R(1)>>, <<R(1), R(2), R(-1)>>}

FragCoords == {(k * 3 * Scale) \div 4 : k \in (-MaxFragCoord)..MaxFragCoord}

FragPositions == {<<x, y, z>> : x \in FragCoords, y \in FragCoords,
                                z \in {0, (3 * Scale) \div 4}}

Intensities == {Lit(1, 2), Lit(1, 1)}

Times == {0, 100 * MaxTime}

StubLevels == {-10000, -5000, 0, 3000, 3500, 7000, 7500, 10000}

NoiseSources == {[kind |-> "stub", v |-> v] : v \in StubLevels}
                \cup {[kind |-> "lattice", v |-> k] : k \in 0..MaxSeed}

NoVertex == [position |-> <<R(0), R(0), R(0)>>, normal |-> <<R(0), R(0), R(1)>>,
             tex_coords |-> <<0, 0>>, color |-> Color(0, 0, 0)]

NoFragment == [vertex_position |-> <<0, 0, 0>>, intensity |-> 0]

NoShade == [color |-> Color(0, 0, 0), locals |-> <<>>, base |-> Color(0, 0, 0),
            steps |-> <<>>, factors |-> <<>>]

(***************************************************************************)
(* The state machine: inputs are drawn by Init, one action per entry point *)
(***************************************************************************)
InitVertex ==
    /\ pc = "vertex"
    /\ uniforms \in [model_matrix : ModelMatrices, view_matrix : ViewMatrices,
                     projection_matrix : ProjectionMatrices,
                     viewport_matrix : ViewportMatrices,
                     time : {0}, noise : {[kind |-> "stub", v |-> 0]},
                     current_body : {"Sun"}]
    /\ vertex \in [position : VertexPositions, normal : VertexNormals,
                   tex_coords : {<<0, 1>>}, color : {Color(255, 255, 255)}]
    /\ vout = NoVertex
    /\ clip = <<>>
    /\ ndc = <<>>
    /\ normal_matrix = <<>>
    /\ inv_ok = FALSE
    /\ fragment = NoFragment
    /\ shade = NoShade
    /\ called = <<>>

InitFragment ==
    /\ pc = "fragment"
    /\ uniforms \in [model_matrix : {Identity4}, view_matrix : {Identity4},
                     projection_matrix : {Identity4},
                     viewport_matrix : {Identity4},
                     time : Times, noise : NoiseSources,
                     current_body : CelestialBody]
    /\ vertex = NoVertex
    /\ vout = NoVertex
    /\ clip = <<>>
    /\ ndc = <<>>
    /\ normal_matrix = <<>>
    /\ inv_ok = FALSE
    /\ fragment \in [vertex_position : FragPositions, intensity : Intensities]
    /\ shade = NoShade
    /\ called = <<>>

VertexShader ==
    /\ pc = "vertex"
    /\ pc' = "vertex_done"
    /\ clip' = ClipPosition(vertex, uniforms)
    /\ ndc' = PerspectiveDivide(clip')
    /\ inv_ok' = (try_inverse(transpose(mat4_to_mat3(uniforms.model_matrix))) # <<>>)
    /\ normal_matrix' = NormalMatrix(uniforms)
    /\ vout' = VertexOut(vertex, uniforms, ndc', normal_matrix')
    /\ UNCHANGED <<uniforms, vertex, fragment, shade, called>>

FragmentShader ==
    /\ pc = "fragment"
    /\ pc' = "fragment_done"
    /\ called' = called \o Calls(fragment, uniforms)
    /\ shade' = fragment_shader(fragment, uniforms)
    /\ UNCHANGED <<uniforms, vertex, vout, clip, ndc, normal_matrix, inv_ok,
                   fragment>>

NextVertex == VertexShader

NextFragment == FragmentShader

SpecVertex == InitVertex /\ [][NextVertex]_vars

SpecFragment == InitFragment /\ [][NextFragment]_vars

(***************************************************************************)
(* Properties.                                                             *)
(***************************************************************************)
Body == uniforms.current_body

Shaded_(body) == pc = "fragment_done" /\ Body = body

ZeroNoise == uniforms.noise = [kind |-> "stub", v |-> 0]

\* the routine each body kind is configured with
Configured ==
    [b \in CelestialBody |->
        CASE b = "Sun" -> "sun_shader"
          [] b = "RockyPlanet" -> "rocky_planet_shader"
          [] b = "GasGiant" -> "gas_giant_shader"
          [] b = "CloudyPlanet" -> "cloudy_planet_shader"
          [] b = "RingedPlanet" -> "ring_shader"
          [] b = "IcePlanet" -> "ice_planet_shader"
          [] b = "ColorPlanet" -> "colorful_planet_shader"
          [] b = "Moon" -> "moon_shader"
          [] b = "OceanPlanet" -> "ocean_planet_shader"
          [] b = "AuroraPlanet" -> "aurora_planet_shader"
          [] b = "NaturePlanet" -> "nature_planet_shader"]

\* C1: for every body kind fragment_shader calls exactly one per-body
\* routine, the one configured for that kind, with the same (fragment,
\* uniforms), and returns its colour unchanged; no two body kinds dispatch
\* to the same routine.
C1_DispatchExactlyOne ==
    /\ \A b1, b2 \in CelestialBody : b1 # b2 => Routine(b1) # Routine(b2)
    /\ pc = "fragment_done" =>
          /\ Len(called) = 1
          /\ called[1].routine = Configured[Body]
          /\ called[1].fragment = fragment
          /\ called[1].uniforms = uniforms
          /\ shade = Invoke(Configured[Body], fragment, uniforms)

C1_Witness ==
    /\ Shaded_("RingedPlanet")
    /\ called = <<[routine |-> "ring_shader", fragment |-> fragment,
                   uniforms |-> uniforms]>>
    /\ shade.color # Color(0, 0, 0)

Done == pc = "vertex_done"

\* f32 `==`: NaN equals nothing, -0.0 equals +0.0
REq(a, b) == /\ ~RIsNaN(a)
             /\ ~RIsNaN(b)
             /\ (a = b \/ (RIsZero(a) /\ RIsZero(b)))

\* f32 `==` on vectors and matrices, component by component
VecEq(a, b) == \A i \in DOMAIN a : REq(a[i], b[i])

MatEq(a, b) == \A i \in DOMAIN a : VecEq(a[i], b[i])

Block == mat4_to_mat3(uniforms.model_matrix)

\* C2: when the upper-left 3x3 block of the model matrix is singular the
\* normal matrix is the identity and transformed_normal is the input normal;
\* when the block is invertible the normal matrix is the inverse of its
\* transpose.
C2_NormalMatrix ==
    Done =>
       /\ RIsZero(determinant(Block)) =>
             /\ ~inv_ok
             /\ normal_matrix = Mat3Identity
             /\ VecEq(vout.transformed_normal, vertex.normal)
       /\ ~RIsZero(determinant(Block)) =>
             /\ inv_ok
             /\ MatEq(Mat3Mul(normal_matrix, transpose(Block)), Mat3Identity)
             /\ MatEq(Mat3Mul(transpose(Block), normal_matrix), Mat3Identity)
             /\ vout.transformed_normal = Mat3MulVec(normal_matrix, vertex.normal)

C2_Witness ==
    /\ Done
    /\ \A i, j \in 1..3 : Block[i][j] = R(0)
    /\ vertex.normal = <<R(1), R(2), R(-1)>>
    /\ vout.transformed_normal = vertex.normal

\* w is +0.0 or -0.0
IsZeroW == clip # <<>> /\ RIsZero(clip[4])

\* C3: when the clip-space w is 0, no NaN or infinite component reaches the
\* transformed position.
C3_ZeroWDefined ==
    (Done /\ IsZeroW) =>
       /\ \A i \in 1..3 : RIsFinite(ndc[i])
       /\ \A i \in 1..3 : RIsFinite(vout.transformed_position[i])

AllIdentity ==
    /\ uniforms.model_matrix = Identity4
    /\ uniforms.view_matrix = Identity4
    /\ uniforms.projection_matrix = Identity4
    /\ uniforms.viewport_matrix = Identity4

\* C5: with model, view, projection and viewport all the identity, w is 1
\* and transformed_position equals the input position.
C5_IdentityLaw ==
    (Done /\ AllIdentity) =>
       /\ clip[4] = R(1)
       /\ VecEq(vout.transformed_position, vertex.position)

C5_Witness ==
    /\ Done
    /\ AllIdentity
    /\ vertex.position = <<R(2), R(-1), R(2)>>
    /\ vout.transformed_position = <<R(2), R(-1), R(2)>>

\* C6: for a clip-space vector (x, y, z, w) with w # 0 the point multiplied
\* by the viewport matrix is (x/w, y/w, z/w, 1); clip (2, 4, 6, 2) gives
\* (1, 2, 3, 1).
C6_PerspectiveDivide ==
    (Done /\ ~RIsZero(clip[4])) =>
       /\ \A i \in 1..3 : REq(RMul(ndc[i], clip[4]), clip[i])
       /\ ndc[4] = R(1)
       /\ \A i \in 1..3 :
             vout.transformed_position[i] = Dot4(uniforms.viewport_matrix[i], ndc)
       /\ clip = <<R(2), R(4), R(6), R(2)>> => ndc = <<R(1), R(2), R(3), R(1)>>

C6_Witness ==
    /\ Done
    /\ clip = <<R(2), R(4), R(6), R(2)>>
    /\ ndc = <<R(1), R(2), R(3), R(1)>>

\* C4: for every body kind and arbitrary position, intensity and time, every
\* scalar the selected shader computes is defined (no operation is applied
\* outside its domain).
C4_ScalarsDefined ==
    pc = "fragment_done" =>
       /\ \A k \in DOMAIN shade.locals : ~IsNaN(shade.locals[k])
       /\ \A i \in 1..Len(shade.steps) : ~IsNaN(shade.steps[i].t)
       /\ \A i \in 1..Len(shade.factors) : ~IsNaN(shade.factors[i])

\* C7: with zero noise the rocky planet shader selects the desert colour,
\* blends dust with factor 0 and returns the desert colour scaled by the
\* intensity; at intensity 1.0 the desert colour itself.
C7_RockyZeroNoise ==
    (Shaded_("RockyPlanet") /\ ZeroNoise) =>
       /\ shade.locals.craters = 0
       /\ shade.locals.terrain = 0
       /\ shade.base = Color(180, 80, 20)
       /\ shade.steps = <<[to |-> Color(200, 150, 100), t |-> 0]>>
       /\ shade.color = ColorMul(Color(180, 80, 20), fragment.intensity)
       /\ fragment.intensity = Lit(1, 1) => shade.color = Color(180, 80, 20)

C7_Witness ==
    /\ Shaded_("RockyPlanet")
    /\ ZeroNoise
    /\ fragment.intensity = Lit(1, 1)
    /\ fragment.vertex_position # <<0, 0, 0>>
    /\ uniforms.time # 0
    /\ shade.color = Color(180, 80, 20)

\* C8: with zero noise the sun shader blends core toward corona with factor
\* 0, uses brightness 1.0 and returns the core colour scaled by the
\* intensity; at intensity 1.0 the core colour itself.
C8_SunZeroNoise ==
    (Shaded_("Sun") /\ ZeroNoise) =>
       /\ shade.base = Color(255, 200, 0)
       /\ shade.steps = <<[to |-> Color(255, 100, 0), t |-> 0]>>
       /\ shade.locals.brightness = Lit(1, 1)
       /\ shade.factors = <<Lit(1, 1), fragment.intensity>>
       /\ shade.color = ColorMul(Color(255, 200, 0), fragment.intensity)
       /\ fragment.intensity = Lit(1, 1) => shade.color = Color(255, 200, 0)

C8_Witness ==
    /\ Shaded_("Sun")
    /\ ZeroNoise
    /\ fragment.intensity = Lit(1, 1)
    /\ fragment.vertex_position # <<0, 0, 0>>
    /\ uniforms.time # 0
    /\ shade.color = Color(255, 200, 0)

\* C9: with zero noise the ringed planet shader takes the ring_pattern <= 0
\* branch: the pure edge colour with no blending, alpha = 0.5 * intensity,
\* the result the edge colour scaled by alpha.
C9_RingZeroNoise ==
    (Shaded_("RingedPlanet") /\ ZeroNoise) =>
       /\ shade.locals.ring_pattern = 0
       /\ shade.base = Color(100, 80, 60)
       /\ shade.steps = <<>>
       /\ shade.locals.alpha = fragment.intensity \div 2
       /\ shade.factors = <<shade.locals.alpha>>
       /\ shade.color = ColorMul(Color(100, 80, 60), fragment.intensity \div 2)
       /\ fragment.intensity = Lit(1, 1) => shade.color = Color(50, 40, 30)

C9_Witness ==
    /\ Shaded_("RingedPlanet")
    /\ ZeroNoise
    /\ fragment.intensity = Lit(1, 1)
    /\ fragment.vertex_position # <<0, 0, 0>>
    /\ shade.color = Color(50, 40, 30)

\* noise samples on a grid of 1/20 over [-1, 1]
SampleGrid == {k * (Scale \div 20) : k \in (-20)..20}

\* C10: in the cloudy planet (gate clouds > 0.3) and the ocean planet (gate
\* waves > 0.7) the overlay's blend weight is 0 at the threshold and strictly
\* increases with the sample above it; at or below the threshold no overlay
\* is applied and the base colour is returned.
C10_OverlayMonotone ==
    /\ Shaded_("CloudyPlanet") =>
          LET c == shade.locals.clouds
              white == Color(255, 255, 255)
          IN  /\ c <= Lit(3, 10) =>
                    /\ shade.steps = <<>>
                    /\ shade.color = ColorMul(shade.base, fragment.intensity)
              /\ c > Lit(3, 10) =>
                    /\ Len(shade.steps) = 1
                    /\ shade.steps[1].to = white
                    /\ shade.steps[1].t > 0
                    /\ shade.steps[1].t <= 2 * (c - Lit(3, 10))
                    /\ \A d \in SampleGrid :
                          /\ d > c => CloudFactor(d) > shade.steps[1].t
                          /\ (d > Lit(3, 10) /\ d < c) =>
                                CloudFactor(d) < shade.steps[1].t
              /\ CloudFactor(Lit(3, 10)) = 0
    /\ Shaded_("OceanPlanet") =>
          LET w == shade.locals.waves
              foam == Color(240, 255, 255)
              n == Len(shade.steps)
          IN  /\ w <= Lit(7, 10) =>
                    \A i \in 1..n : shade.steps[i].to # foam
              /\ w > Lit(7, 10) =>
                    /\ n >= 1
                    /\ shade.steps[n].to = foam
                    /\ \A i \in 1..(n - 1) : shade.steps[i].to # foam
                    /\ shade.steps[n].t > 0
                    /\ shade.steps[n].t <= w - Lit(7, 10)
                    /\ \A d \in SampleGrid :
                          /\ d > w => FoamFactor(d) > shade.steps[n].t
                          /\ (d > Lit(7, 10) /\ d < w) =>
                                FoamFactor(d) < shade.steps[n].t
              /\ FoamFactor(Lit(7, 10)) = 0

C10_Witness ==
    /\ Shaded_("CloudyPlanet")
    /\ shade.locals.clouds = 3500
    /\ shade.steps = <<[to |-> Color(255, 255, 255), t |-> 1000]>>

\* The threshold-gated overlays of each body: the gate's name, the local
\* holding its pattern and the overlay colour blended in.
Overlay(gate, pattern, to) == [gate |-> gate, pattern |-> pattern, to |-> to]

OverlaysOf(body) ==
    CASE body = "Moon" ->
           { Overlay("moon.craters", "craters", Color(100, 100, 100)),
             Overlay("moon.surface_details", "surface_details", Color(100, 100, 100)) }
      [] body = "ColorPlanet" ->
           { Overlay("color.curve_pattern", "curve_pattern", Color(245, 105, 238)),
             Overlay("color.wave_pattern", "wave_pattern", Color(245, 159, 95)),
             Overlay("color.ring_pattern", "ring_pattern", Color(245, 7, 123)) }
      [] body = "IcePlanet" ->
           { Overlay("ice.crack_pattern", "crack_pattern", Color(80, 130, 255)),
             Overlay("ice.crack_depth", "crack_pattern", Color(40, 100, 255)),
             Overlay("ice.crystal_pattern", "crystal_pattern", Color(230, 255, 255)),
             Overlay("ice.aurora_effect", "aurora_effect", Color(160, 255, 220)),
             Overlay("ice.frost_pattern", "frost_pattern", Color(255, 255, 255)),
             Overlay("ice.twilight", "twilight", Color(180, 200, 255)) }
      [] body = "NaturePlanet" ->
           { Overlay("nature.terrain_spiral", "terrain_spiral", Color(121, 85, 72)),
             Overlay("nature.line_pattern1", "line_pattern1", Color(147, 112, 219)),
             Overlay("nature.line_pattern2", "line_pattern2", Color(255, 127, 80)),
             Overlay("nature.biolum_pattern", "biolum_pattern", Color(64, 224, 208)),
             Overlay("nature.pollen", "pollen", Color(255, 223, 128)) }
      [] body = "AuroraPlanet" ->
           { Overlay("aurora.wave_lines", "wave_lines", Color(99, 231, 255)),
             Overlay("aurora.spiral", "spiral", Color(45, 226, 230)),
             Overlay("aurora.sparkle", "sparkle", Color(255, 215, 0)),
             Overlay("aurora.circle_pattern", "circle_pattern", Color(210, 158, 255)),
             Overlay("aurora.neon_curve", "neon_curve", Color(255, 20, 147)) }
      [] body = "CloudyPlanet" ->
           { Overlay("cloudy.clouds", "clouds", Color(255, 255, 255)) }
      [] body = "OceanPlanet" ->
           { Overlay("ocean.waves", "waves", Color(240, 255, 255)) }
      [] body = "GasGiant" ->
           { Overlay("gas.storm", "storm", Color(255, 140, 100)) }
      [] OTHER -> {}

OverlayThreshold(gate) ==
    CASE gate = "cloudy.clouds" -> Lit(3, 10)
      [] gate = "ocean.waves" -> Lit(7, 10)
      [] gate = "gas.storm" -> Lit(1, 2)
      [] OTHER -> GateThreshold(gate)

OverlayFactor(gate, p) ==
    CASE gate = "cloudy.clouds" -> CloudFactor(p)
      [] gate = "ocean.waves" -> FoamFactor(p)
      [] gate = "gas.storm" -> StormFactor(p)
      [] OTHER -> GateFactor(gate, p)

\* the overlay's `if` is reached and its gate is open in the current state
OverlayTaken(o) ==
    /\ FGt(shade.locals[o.pattern], OverlayThreshold(o.gate))
    /\ o.gate = "color.wave_pattern" =>
          ~FGt(shade.locals.curve_pattern, OverlayThreshold("color.curve_pattern"))
    /\ o.gate = "gas.storm" =>
          (fragment.vertex_position[1] > 0 /\ fragment.vertex_position[2] > 0)

\* the lerp step of a taken overlay is in the trace, with the factor the gate
\* computes from the pattern (the ice crystals' factor is scaled by sparkle)
OverlayStepped(o) ==
    \E i \in 1..Len(shade.steps) :
       /\ shade.steps[i].to = o.to
       /\ IF o.gate = "ice.crystal_pattern"
          THEN /\ shade.steps[i].t >= 0
               /\ shade.steps[i].t <= OverlayFactor(o.gate, shade.locals[o.pattern])
          ELSE shade.steps[i].t = OverlayFactor(o.gate, shade.locals[o.pattern])

\* the factor is affine in the pattern, up to the last fixed-point digit
OverlayAffine(gate) ==
    \A k \in 0..4 :
       LET p == OverlayThreshold(gate) + k * (Scale \div 100)
           d == Scale \div 100
           dd == OverlayFactor(gate, p + 2 * d) - 2 * OverlayFactor(gate, p + d)
                   + OverlayFactor(gate, p)
       IN  dd >= -2 /\ dd <= 2

OverlayFadesIn(o) ==
    /\ OverlayStepped(o)
    /\ OverlayAffine(o.gate)
    /\ OverlayFactor(o.gate, OverlayThreshold(o.gate)) = 0

\* C11: every threshold-gated overlay in the shader library uses a blend
\* factor that is an affine rescale of its gating pattern equal to 0 at the
\* gate's own threshold, so the overlay fades in from zero weight.
C11_OverlaysFadeIn ==
    pc = "fragment_done" =>
       \A o \in OverlaysOf(Body) : OverlayTaken(o) => OverlayFadesIn(o)

\* the overlays of C11 other than the colour planet's two accents
C11_OtherOverlaysFadeIn ==
    pc = "fragment_done" =>
       \A o \in OverlaysOf(Body) :
          (OverlayTaken(o)
             /\ o.gate \notin {"color.curve_pattern", "color.wave_pattern"})
          => OverlayFadesIn(o)

\* the colour planet's accents are blended with the factor pattern - 0.3,
\* which is affine, but 0.3 and 0.2 at the thresholds 0.6 and 0.5
C11_AccentsPopIn ==
    Shaded_("ColorPlanet") =>
       \A o \in OverlaysOf(Body) :
          (OverlayTaken(o)
             /\ o.gate \in {"color.curve_pattern", "color.wave_pattern"})
          => /\ OverlayStepped(o)
             /\ OverlayAffine(o.gate)
             /\ OverlayFactor(o.gate, OverlayThreshold(o.gate))
                   = OverlayThreshold(o.gate) - Lit(3, 10)
             /\ OverlayFactor(o.gate, OverlayThreshold(o.gate)) > 0

\* the gas giant's colour before its final turbulence blend: the trace
\* without its last step
PreTurbulence ==
    ApplySteps(shade.base, SubSeq(shade.steps, 1, Len(shade.steps) - 1))

InStormQuadrant ==
    fragment.vertex_position[1] > 0 /\ fragment.vertex_position[2] > 0

\* C12: in the gas-giant shader the storm colour (storm core blended toward
\* storm edge by (storm - 0.5) * 2) is used only when storm > 0.5 and
\* position.x > 0 and position.y > 0; in every other case, whatever the storm
\* value, the colour before the final turbulence blend is the band colour of
\* the ladder: bands > 0.2 gives band1, else secondary_bands > 0 gives band2,
\* else band3.
C12_StormOnlyInQuadrant ==
    Shaded_("GasGiant") =>
       LET l == shade.locals
           band1 == Color(255, 225, 190)
           band2 == Color(210, 160, 110)
           band3 == Color(180, 130, 90)
           storm_core == Color(255, 100, 80)
           storm_edge == Color(255, 140, 100)
           n == Len(shade.steps)
       IN  /\ n >= 1
           /\ shade.steps[n] = [to |-> band3, t |-> (l.turbulence * 3) \div 10]
           /\ shade.color = ColorMul(lerp(PreTurbulence, band3, shade.steps[n].t),
                                     fragment.intensity)
           /\ (l.storm > Lit(1, 2) /\ InStormQuadrant) =>
                 /\ n = 2
                 /\ PreTurbulence
                       = lerp(storm_core, storm_edge, 2 * (l.storm - Lit(1, 2)))
           /\ ~(l.storm > Lit(1, 2) /\ InStormQuadrant) =>
                 /\ n = 1
                 /\ l.bands > Lit(2, 10) => PreTurbulence = band1
                 /\ (l.bands <= Lit(2, 10) /\ l.secondary_bands > 0) =>
                       PreTurbulence = band2
                 /\ (l.bands <= Lit(2, 10) /\ l.secondary_bands <= 0) =>
                       PreTurbulence = band3

\* a strong storm outside the quadrant: the band colour is kept
C12_Witness ==
    /\ Shaded_("GasGiant")
    /\ shade.locals.storm > Lit(1, 2)
    /\ fragment.vertex_position[1] <= 0
    /\ shade.locals.bands <= Lit(2, 10)
    /\ shade.locals.secondary_bands > 0
    /\ shade.steps = <<[to |-> Color(180, 130, 90),
                        t |-> (shade.locals.turbulence * 3) \div 10]>>
    /\ shade.base = Color(210, 160, 110)

====
